---- MODULE Spec2Model ----
(***************************************************************************)
(* unicode-animations: the braille grid codec (braille.py) and the         *)
(* threaded LiveSpinner renderer (spinner.py).                             *)
(*                                                                         *)
(* Strings are sequences of Unicode codepoints, so chr() and ord() are the *)
(* identity on codepoints and "".join / str.splitlines are modelled on the *)
(* codepoint sequences. Python's 0-based indices become 1-based ones.      *)
(* The stream is unbuffered: flush() changes nothing that is modelled.     *)
(***************************************************************************)
EXTENDS Integers, Sequences, FiniteSets, TLC

\* ------------------------------------------------------------------ bounds
\* Largest input grid of the codec runs, and the most dots in it that differ
\* from the rest (raised in a blank grid, or blank in a full one).
MaxRows == 8
MaxCols == 4
MaxDots == 1
\* Longest input text (codepoints, newlines included) of the codec runs.
MaxTextLen == 5
\* start() calls per behaviour, and interval timeouts per render thread.
MaxStarts == 2
MaxTicks == 1
\* stream.write() calls that raise per behaviour, where writes may raise.
MaxFails == 1
\* Largest factor of the scaling runs, and longest frame text of their
\* one-frame definitions.
MaxFactor == 3
MaxFrameLen == 4

\* --------------------------------------------------------------- codepoints
NL == 10
CR == 13
BRAILLE_BASE == 10240

\* The codepoints str.splitlines() breaks a line at.
LINE_BOUNDARIES == {10, 11, 12, 13, 28, 29, 30, 133, 8232, 8233}

\* Braille cells the input texts are written with: blank, dot 1, dots 7+8, full.
SampleCells == {BRAILLE_BASE, BRAILLE_BASE + 1, BRAILLE_BASE + 192, BRAILLE_BASE + 255}

\* -------------------------------------------------------------- braille.py
\* Mutant: dots 7 and 8 (the bottom row) exchanged.
BRAILLE_DOT_MAP_m == << <<1, 8>>, <<2, 16>>, <<4, 32>>, <<128, 64>> >>

BRAILLE_DOT_MAP == << <<1, 8>>, <<2, 16>>, <<4, 32>>, <<64, 128>> >>

\* Python's int & int and int | int on naturals.
RECURSIVE BitAnd(_, _)
BitAnd(a, b) ==
    IF a = 0 \/ b = 0 THEN 0
    ELSE ((a % 2) * (b % 2)) + 2 * BitAnd(a \div 2, b \div 2)

RECURSIVE BitOr(_, _)
BitOr(a, b) ==
    IF a = 0 THEN b
    ELSE IF b = 0 THEN a
    ELSE (IF a % 2 = 1 \/ b % 2 = 1 THEN 1 ELSE 0) + 2 * BitOr(a \div 2, b \div 2)

Min(a, b) == IF a <= b THEN a ELSE b

RECURSIVE SeqMax(_)
SeqMax(s) ==
    IF s = <<>> THEN 0
    ELSE LET m == SeqMax(Tail(s)) IN IF Head(s) >= m THEN Head(s) ELSE m

\* "sep".join(parts)
RECURSIVE Join(_, _)
Join(parts, sep) ==
    IF parts = <<>> THEN <<>>
    ELSE IF Len(parts) = 1 THEN parts[1]
    ELSE parts[1] \o <<sep>> \o Join(Tail(parts), sep)

\* Index of the first line boundary of s at or after i, 0 when there is none.
RECURSIVE FirstBreak(_, _)
FirstBreak(s, i) ==
    IF i > Len(s) THEN 0
    ELSE IF s[i] \in LINE_BOUNDARIES THEN i
    ELSE FirstBreak(s, i + 1)

\* str.splitlines(): no trailing empty line, "\r\n" is one boundary.
RECURSIVE splitlines(_)
splitlines(s) ==
    IF s = <<>> THEN <<>>
    ELSE LET i == FirstBreak(s, 1) IN
         IF i = 0 THEN <<s>>
         ELSE LET w == IF s[i] = CR /\ i < Len(s) /\ s[i + 1] = NL THEN 2 ELSE 1 IN
              <<SubSeq(s, 1, i - 1)>> \o splitlines(SubSeq(s, i + w, Len(s)))

\* The inner loops of _grid_chunk_to_braille for character c (0-based): position
\* k runs over (r, d) = (k div 2, k mod 2) for r in range(min(4, len(chunk))).
RECURSIVE ChunkCellCode(_, _, _, _)
ChunkCellCode(chunk, c, k, code) ==
    IF k >= 2 * Min(4, Len(chunk)) THEN code
    ELSE LET r == k \div 2
             d == k % 2
             row == chunk[r + 1]
             col == c * 2 + d
             next == IF col < Len(row) /\ row[col + 1]
                     THEN BitOr(code, BRAILLE_DOT_MAP[r + 1][d + 1])
                     ELSE code
         IN ChunkCellCode(chunk, c, k + 1, next)

\* Mutant: floor for ceil, an odd last column gets no character.
_grid_chunk_to_braille_m(chunk, cols) ==
    LET char_count == cols \div 2
    IN [c \in 1..char_count |-> ChunkCellCode(chunk, c - 1, 0, BRAILLE_BASE)]

_grid_chunk_to_braille(chunk, cols) ==
    LET char_count == (cols + 1) \div 2
    IN [c \in 1..char_count |-> ChunkCellCode(chunk, c - 1, 0, BRAILLE_BASE)]

\* grid[start:start + 4], padded with all-False rows to 4 rows (0-based start).
GridBand(grid, start, cols) ==
    LET have == Min(4, Len(grid) - start)
    IN [r \in 1..4 |-> IF r <= have THEN grid[start + r] ELSE [c \in 1..cols |-> FALSE]]

\* Mutant: no banding, a grid of any height is encoded as one chunk.
grid_to_braille_m(grid) ==
    IF grid = <<>> THEN <<>>
    ELSE LET cols == SeqMax([r \in 1..Len(grid) |-> Len(grid[r])])
         IN IF cols = 0 THEN <<>> ELSE _grid_chunk_to_braille(grid, cols)

grid_to_braille(grid) ==
    IF grid = <<>> THEN <<>>
    ELSE LET rows == Len(grid)
             cols == SeqMax([r \in 1..rows |-> Len(grid[r])])
         IN IF cols = 0 THEN <<>>
            ELSE IF rows <= 4 THEN _grid_chunk_to_braille(grid, cols)
            ELSE Join([b \in 1..((rows + 3) \div 4) |->
                          _grid_chunk_to_braille(GridBand(grid, 4 * (b - 1), cols), cols)],
                      NL)

make_grid(rows, cols) ==
    IF rows <= 0 \/ cols <= 0 THEN <<>>
    ELSE [r \in 1..rows |-> [c \in 1..cols |-> FALSE]]

\* Mutant: range(3) for range(4), the bottom dot row is never decoded.
_braille_line_to_grid_m(line) ==
    LET cols == Len(line) * 2
    IN [r \in 1..4 |->
          [j \in 1..cols |->
              /\ r <= 3
              /\ BitAnd(line[(j - 1) \div 2 + 1] - BRAILLE_BASE,
                        BRAILLE_DOT_MAP[r][((j - 1) % 2) + 1]) # 0]]

_braille_line_to_grid(line) ==
    LET cols == Len(line) * 2
    IN [r \in 1..4 |->
          [j \in 1..cols |->
              BitAnd(line[(j - 1) \div 2 + 1] - BRAILLE_BASE,
                     BRAILLE_DOT_MAP[r][((j - 1) % 2) + 1]) # 0]]

\* Mutant: the width of the first line for the maximum over the lines.
braille_to_grid_m(text) ==
    IF text = <<>> THEN <<>>
    ELSE LET lines == splitlines(text)
             line_grids == [i \in 1..Len(lines) |-> _braille_line_to_grid(lines[i])]
             max_cols == Len(line_grids[1][1])
             total_rows == 4 * Len(line_grids)
         IN [R \in 1..total_rows |->
               [c \in 1..max_cols |->
                  LET lg == line_grids[(R - 1) \div 4 + 1]
                      r == ((R - 1) % 4) + 1
                  IN c <= Len(lg[r]) /\ lg[r][c]]]

braille_to_grid(text) ==
    IF text = <<>> THEN <<>>
    ELSE LET lines == splitlines(text)
             line_grids == [i \in 1..Len(lines) |-> _braille_line_to_grid(lines[i])]
             max_cols == SeqMax([i \in 1..Len(lines) |-> Len(line_grids[i][1])])
             total_rows == 4 * Len(line_grids)
         IN [R \in 1..total_rows |->
               [c \in 1..max_cols |->
                  LET lg == line_grids[(R - 1) \div 4 + 1]
                      r == ((R - 1) % 4) + 1
                  IN c <= Len(lg[r]) /\ lg[r][c]]]

\* The grid `big` of scale_spinner: make_grid(rows * factor, cols * factor) with
\* the cells the four loops set, big[r * factor + dr][c * factor + dc] for each
\* raised grid[r][c] and dr, dc in range(factor).
ScaleGridSets(grid, factor, R, C) ==
    \E r \in 0..(Len(grid) - 1), dr \in 0..(factor - 1) :
       /\ R = r * factor + dr
       /\ \E c \in 0..(Len(grid[1]) - 1), dc \in 0..(factor - 1) :
             /\ C = c * factor + dc
             /\ grid[r + 1][c + 1]

\* Mutant: only the first cell of each block is set.
ScaleGrid_m(grid, factor) ==
    LET rows == Len(grid)
        cols == IF grid # <<>> THEN Len(grid[1]) ELSE 0
        big == make_grid(rows * factor, cols * factor)
    IN [R \in 1..Len(big) |->
          [C \in 1..Len(big[R]) |->
              /\ (R - 1) % factor = 0
              /\ (C - 1) % factor = 0
              /\ ScaleGridSets(grid, factor, R - 1, C - 1)]]

ScaleGrid(grid, factor) ==
    LET rows == Len(grid)
        cols == IF grid # <<>> THEN Len(grid[1]) ELSE 0
        big == make_grid(rows * factor, cols * factor)
    IN [R \in 1..Len(big) |->
          [C \in 1..Len(big[R]) |-> ScaleGridSets(grid, factor, R - 1, C - 1)]]

\* Mutant: every frame is scaled by 2, whatever the factor.
ScaleFrame_m(frame, factor) ==
    grid_to_braille(ScaleGrid(braille_to_grid(frame), 2))

\* The loop body of scale_spinner: one frame decoded, scaled and encoded.
ScaleFrame(frame, factor) ==
    grid_to_braille(ScaleGrid(braille_to_grid(frame), factor))

\* Mutant: the early return for factor < 1 only.
scale_spinner_m(spinner, factor) ==
    IF factor < 1 THEN spinner
    ELSE [frames |-> [i \in 1..Len(spinner.frames) |->
                         ScaleFrame(spinner.frames[i], factor)],
          interval |-> spinner.interval]

scale_spinner(spinner, factor) ==
    IF factor <= 1 THEN spinner
    ELSE [frames |-> [i \in 1..Len(spinner.frames) |->
                         ScaleFrame(spinner.frames[i], factor)],
          interval |-> spinner.interval]

\* ------------------------------------------------------------- codec inputs
\* Sets of at most k cells out of `cells`.
RECURSIVE DotSets(_, _)
DotSets(cells, k) ==
    IF k = 0 THEN {{}}
    ELSE LET prev == DotSets(cells, k - 1)
         IN prev \cup {s \cup {x} : s \in prev, x \in cells}

\* The rows x cols grid whose cells in dots are `on` and whose others are not.
GridOf(rows, cols, dots, on) ==
    [r \in 1..rows |-> [c \in 1..cols |-> IF <<r, c>> \in dots THEN on ELSE ~on]]

\* Every grid of one braille cell: 4 rows of 2 columns.
CellGrids == [1..4 -> [1..2 -> BOOLEAN]]

RECURSIVE SeqsUpTo(_, _)
SeqsUpTo(S, n) ==
    IF n = 0 THEN {<<>>}
    ELSE LET prev == SeqsUpTo(S, n - 1)
         IN prev \cup {Append(s, x) : s \in prev, x \in S}

InputTexts == SeqsUpTo(SampleCells \cup {NL}, MaxTextLen)

\* -------------------------------------------------------------- spinner.py
ESC == 27
SPACE == 32

\* _COLORS: "\033[3Xm" for X = 1..7
_COLORS ==
    [name \in {"red", "green", "yellow", "blue", "magenta", "cyan", "white"} |->
        <<ESC, 91, 51,
          CASE name = "red" -> 49 [] name = "green" -> 50 [] name = "yellow" -> 51
            [] name = "blue" -> 52 [] name = "magenta" -> 53 [] name = "cyan" -> 54
            [] OTHER -> 55,
          109>>]

\* "\033[0m"
_RESET == <<ESC, 91, 48, 109>>
\* "\033[?25l" and "\033[?25h"
HIDE_CURSOR == <<ESC, 91, 63, 50, 53, 108>>
SHOW_CURSOR == <<ESC, 91, 63, 50, 53, 104>>
\* "\r\033[2K" and "\033[1A"
CLEAR_LINE == <<CR, ESC, 91, 50, 75>>
CURSOR_UP == <<ESC, 91, 49, 65>>

\* The label, final symbol and colours of the runs: "" or "L", "" or a check
\* mark, and no colour, a colour of the table or an unknown name.
Labels == {<<>>, <<76>>}
Symbols == {<<>>, <<10003>>}
ColorNames == {"", "cyan", "nope"}

\* The definitions rendered: one of single-line frames, one of two-line frames
\* (as scale_spinner produces them). Spinner(frames, interval).
SpinnerDefs ==
    { [frames |-> << <<BRAILLE_BASE + 1>>, <<BRAILLE_BASE + 2>> >>, interval |-> 80],
      [frames |-> << <<BRAILLE_BASE + 3, NL, BRAILLE_BASE>>,
                     <<BRAILLE_BASE + 12, NL, BRAILLE_BASE + 48>>,
                     <<BRAILLE_BASE, NL, BRAILLE_BASE + 192>> >>, interval |-> 40] }

VARIABLES
    \* LiveSpinner fields
    _spinner, _text, _color, _stop_event, _thread, _last_rendered_lines,
    \* the stream: stream.isatty(), and the write() calls it received, each with
    \* the thread that made it (0 is the caller thread)
    is_tty, stream,
    \* the render threads ever created: position in _run and its locals idx and
    \* rendered (emptied once it is no longer read)
    threads,
    \* the caller thread: position in start()/stop(), and the call it last made
    pc, call, starts,
    \* the write() calls that raised so far
    fails,
    \* the codec runs
    cpc, cgrid, ctext, rgrid, rtext,
    \* the scaling runs: scale_spinner's arguments and its result
    cdef, cfactor, rdef

svars == <<_spinner, _text, _color, _stop_event, _thread, _last_rendered_lines,
           is_tty, stream, threads, pc, call, starts, fails>>
scalevars == <<cdef, cfactor, rdef>>
cvars == <<cpc, cgrid, ctext, rgrid, rtext, scalevars>>
vars == <<svars, cvars>>

Tids == 1..MaxStarts
NoDef == [frames |-> <<>>, interval |-> 0]
NoCall == [op |-> "none", status |-> "none", symbol |-> <<>>, active |-> FALSE, mark |-> 0]

\* LiveSpinner.__init__
SpinnerInit ==
    /\ _spinner \in SpinnerDefs
    /\ _text \in Labels
    /\ _color \in ColorNames
    /\ is_tty \in BOOLEAN
    /\ _stop_event = FALSE
    /\ _thread = 0
    /\ _last_rendered_lines = 0
    /\ stream = <<>>
    /\ threads = [t \in Tids |-> [pc |-> "unborn", idx |-> 0, rendered |-> <<>>]]
    /\ pc = "idle"
    /\ call = NoCall
    /\ starts = 0
    /\ fails = 0

CodecOff ==
    /\ cpc = "off"
    /\ cgrid = <<>>
    /\ ctext = <<>>
    /\ rgrid = <<>>
    /\ rtext = <<>>
    /\ cdef = NoDef
    /\ cfactor = 0
    /\ rdef = NoDef

Written(by, strs) == [k \in 1..Len(strs) |-> [by |-> by, s |-> strs[k]]]

\* Mutant: the colour is applied whether or not the stream is a terminal.
_format_frame_m(frame) ==
    LET split == splitlines(frame)
        lines0 == IF split = <<>> THEN << <<>> >> ELSE split
        code == IF _color \in DOMAIN _COLORS THEN _COLORS[_color] ELSE <<>>
        lines1 == IF _color # "" /\ code # <<>>
                  THEN [k \in 1..Len(lines0) |-> code \o lines0[k] \o _RESET]
                  ELSE lines0
        lines2 == IF _text # <<>>
                  THEN [lines1 EXCEPT ![1] =
                           IF lines1[1] # <<>> THEN lines1[1] \o <<SPACE>> \o _text
                           ELSE _text]
                  ELSE lines1
    IN Join(lines2, NL)

_format_frame(frame) ==
    LET split == splitlines(frame)
        lines0 == IF split = <<>> THEN << <<>> >> ELSE split
        code == IF _color \in DOMAIN _COLORS THEN _COLORS[_color] ELSE <<>>
        lines1 == IF _color # "" /\ is_tty /\ code # <<>>
                  THEN [k \in 1..Len(lines0) |-> code \o lines0[k] \o _RESET]
                  ELSE lines0
        lines2 == IF _text # <<>>
                  THEN [lines1 EXCEPT ![1] =
                           IF lines1[1] # <<>> THEN lines1[1] \o <<SPACE>> \o _text
                           ELSE _text]
                  ELSE lines1
    IN Join(lines2, NL)

\* Mutant: a cursor-up after every line, the last one too.
EraseWrites_m(n) ==
    IF n <= 0 THEN <<>>
    ELSE [k \in 1..(2 * n) |-> IF k % 2 = 1 THEN CLEAR_LINE ELSE CURSOR_UP]

\* The write() calls of _clear_rendered for n rendered lines.
EraseWrites(n) ==
    IF n <= 0 THEN <<>>
    ELSE [k \in 1..(2 * n - 1) |-> IF k % 2 = 1 THEN CLEAR_LINE ELSE CURSOR_UP]

_clear_rendered(by) ==
    /\ stream' = stream \o Written(by, EraseWrites(_last_rendered_lines))
    /\ _last_rendered_lines' = 0

\* Mutant: the first frame, whatever idx.
FrameAt_m(idx) == _spinner.frames[1]

\* frames[idx % len(frames)]
FrameAt(idx) == _spinner.frames[(idx % Len(_spinner.frames)) + 1]

\* len(rendered.splitlines()) or 1
RenderedLines(rendered) ==
    IF Len(splitlines(rendered)) = 0 THEN 1 ELSE Len(splitlines(rendered))

\* threading.Thread.is_alive()
IsAlive(t) == threads[t].pc \notin {"unborn", "done", "raised"}

\* ------------------------------------------------------------------ _run
Goto(t, where) == threads' = [threads EXCEPT ![t].pc = where]

LoopHide(t) ==
    /\ threads[t].pc = "hide"
    /\ stream' = Append(stream, [by |-> t, s |-> HIDE_CURSOR])
    /\ Goto(t, "check")
    /\ UNCHANGED <<_spinner, _text, _color, _stop_event, _thread,
                   _last_rendered_lines, is_tty, pc, call, starts, fails, cvars>>

\* Mutant: while True, the event is not looked at.
LoopCheck_m(t) ==
    /\ threads[t].pc = "check"
    /\ Goto(t, "clear")
    /\ UNCHANGED <<_spinner, _text, _color, _stop_event, _thread,
                   _last_rendered_lines, is_tty, stream, pc, call, starts, fails, cvars>>

\* while not self._stop_event.is_set()
LoopCheck(t) ==
    /\ threads[t].pc = "check"
    /\ Goto(t, IF _stop_event THEN "done" ELSE "clear")
    /\ UNCHANGED <<_spinner, _text, _color, _stop_event, _thread,
                   _last_rendered_lines, is_tty, stream, pc, call, starts, fails, cvars>>

LoopClear(t) ==
    /\ threads[t].pc = "clear"
    /\ _clear_rendered(t)
    /\ Goto(t, "write")
    /\ UNCHANGED <<_spinner, _text, _color, _stop_event, _thread,
                   is_tty, pc, call, starts, fails, cvars>>

LoopWrite(t) ==
    /\ threads[t].pc = "write"
    /\ LET rendered == _format_frame(FrameAt(threads[t].idx))
       IN /\ stream' = Append(stream, [by |-> t, s |-> rendered])
          /\ threads' = [threads EXCEPT ![t].pc = "count", ![t].rendered = rendered]
    /\ UNCHANGED <<_spinner, _text, _color, _stop_event, _thread,
                   _last_rendered_lines, is_tty, pc, call, starts, fails, cvars>>

LoopCount(t) ==
    /\ threads[t].pc = "count"
    /\ _last_rendered_lines' = RenderedLines(threads[t].rendered)
    /\ threads' = [threads EXCEPT ![t].pc = "wait", ![t].idx = @ + 1,
                                  ![t].rendered = <<>>]
    /\ UNCHANGED <<_spinner, _text, _color, _stop_event, _thread,
                   is_tty, stream, pc, call, starts, fails, cvars>>

\* Mutant: a sleep for the interval, which the event does not end.
WaitCancelled_m == FALSE

\* self._stop_event.wait(interval) returns as soon as the event is set ...
WaitCancelled == _stop_event

WaitSignalled(t) ==
    /\ threads[t].pc = "wait"
    /\ WaitCancelled
    /\ Goto(t, "check")
    /\ UNCHANGED <<_spinner, _text, _color, _stop_event, _thread,
                   _last_rendered_lines, is_tty, stream, pc, call, starts, fails, cvars>>

\* ... or when the interval has elapsed.
WaitTimeout(t) ==
    /\ threads[t].pc = "wait"
    /\ threads[t].idx <= MaxTicks
    /\ Goto(t, "check")
    /\ UNCHANGED <<_spinner, _text, _color, _stop_event, _thread,
                   _last_rendered_lines, is_tty, stream, pc, call, starts, fails, cvars>>

LoopStep(t) ==
    \/ LoopHide(t)
    \/ LoopCheck(t)
    \/ LoopClear(t)
    \/ LoopWrite(t)
    \/ LoopCount(t)
    \/ WaitSignalled(t)

\* ----------------------------------------------------------------- start()
Begin(op, symbol, active) ==
    [op |-> op, status |-> "running", symbol |-> symbol, active |-> active,
     mark |-> Len(stream)]

Return == call' = [call EXCEPT !.status = "returned"]
Raise == call' = [call EXCEPT !.status = "raised"]

\* Mutant: the label without its line terminator.
FallbackLine_m == _text

\* self._text + "\n"
FallbackLine == _text \o <<NL>>

\* if not self._is_tty: the label once, and return. (__enter__ is start().)
StartCall ==
    /\ pc = "idle"
    /\ starts < MaxStarts
    /\ starts' = starts + 1
    /\ IF ~is_tty
       THEN /\ stream' = IF _text # <<>>
                         THEN Append(stream, [by |-> 0, s |-> FallbackLine])
                         ELSE stream
            /\ call' = [Begin("start", <<>>, FALSE) EXCEPT !.status = "returned"]
            /\ pc' = "idle"
       ELSE /\ call' = Begin("start", <<>>, FALSE)
            /\ pc' = "start_alive"
            /\ UNCHANGED stream
    /\ UNCHANGED <<_spinner, _text, _color, _stop_event, _thread,
                   _last_rendered_lines, is_tty, threads, fails, cvars>>

\* Mutant: start() does not look at the thread it already has.
AlreadyRunning_m == FALSE

\* self._thread is not None and self._thread.is_alive()
AlreadyRunning == _thread # 0 /\ IsAlive(_thread)

StartAlive ==
    /\ pc = "start_alive"
    /\ IF AlreadyRunning
       THEN pc' = "idle" /\ Return
       ELSE pc' = "start_clear" /\ UNCHANGED call
    /\ UNCHANGED <<_spinner, _text, _color, _stop_event, _thread,
                   _last_rendered_lines, is_tty, stream, threads, starts, fails, cvars>>

\* Mutant: the event of the previous stop() is left set.
StartClear_m ==
    /\ pc = "start_clear"
    /\ pc' = "start_reset"
    /\ UNCHANGED <<_spinner, _text, _color, _stop_event, _thread, _last_rendered_lines,
                   is_tty, stream, threads, call, starts, fails, cvars>>

\* self._stop_event.clear()
StartClear ==
    /\ pc = "start_clear"
    /\ _stop_event' = FALSE
    /\ pc' = "start_reset"
    /\ UNCHANGED <<_spinner, _text, _color, _thread, _last_rendered_lines,
                   is_tty, stream, threads, call, starts, fails, cvars>>

\* self._last_rendered_lines = 0
StartReset ==
    /\ pc = "start_reset"
    /\ _last_rendered_lines' = 0
    /\ pc' = "start_spawn"
    /\ UNCHANGED <<_spinner, _text, _color, _stop_event, _thread,
                   is_tty, stream, threads, call, starts, fails, cvars>>

\* The thread a new threading.Thread(...) is: the first one not yet created.
NewTid == CHOOSE t \in Tids : threads[t].pc = "unborn" /\ \A u \in 1..(t - 1) : threads[u].pc # "unborn"

\* self._thread = threading.Thread(target=self._run, daemon=True); self._thread.start()
StartSpawn ==
    /\ pc = "start_spawn"
    /\ _thread' = NewTid
    /\ threads' = [threads EXCEPT ![NewTid] = [pc |-> "hide", idx |-> 0, rendered |-> <<>>]]
    /\ call' = [call EXCEPT !.status = "returned", !.active = TRUE]
    /\ pc' = "idle"
    /\ UNCHANGED <<_spinner, _text, _color, _stop_event, _last_rendered_lines,
                   is_tty, stream, starts, fails, cvars>>

\* ------------------------------------------------------------------ stop()
\* Mutant: stop() without its early return.
NotStarted_m == FALSE

\* if self._thread is None: return
NotStarted == _thread = 0

\* stop(symbol); __exit__ is stop() with no symbol, whether the with block ended
\* normally or by an exception.
StopCall(symbol) ==
    /\ pc = "idle"
    /\ IF NotStarted
       THEN /\ call' = [Begin("stop", symbol, FALSE) EXCEPT !.status = "returned"]
            /\ pc' = "idle"
            /\ UNCHANGED _stop_event
       ELSE /\ call' = Begin("stop", symbol, TRUE)
            /\ _stop_event' = TRUE
            /\ pc' = "stop_join"
    /\ UNCHANGED <<_spinner, _text, _color, _thread, _last_rendered_lines,
                   is_tty, stream, threads, starts, fails, cvars>>

\* Mutant: stop() sets the event and does not wait for the thread.
JoinReturns_m == _thread # 0

\* self._thread.join() returns once the thread has ended
JoinReturns == _thread # 0 /\ ~IsAlive(_thread)

\* Mutant: a join that gives up at once, whether or not the thread has ended.
StopJoin_m ==
    /\ pc = "stop_join"
    /\ _thread # 0
    /\ _thread' = 0
    /\ pc' = "stop_clear"
    /\ UNCHANGED <<_spinner, _text, _color, _stop_event, _last_rendered_lines,
                   is_tty, stream, threads, call, starts, fails, cvars>>

\* self._thread.join(); self._thread = None
StopJoin ==
    /\ pc = "stop_join"
    /\ JoinReturns
    /\ _thread' = 0
    /\ pc' = "stop_clear"
    /\ UNCHANGED <<_spinner, _text, _color, _stop_event, _last_rendered_lines,
                   is_tty, stream, threads, call, starts, fails, cvars>>

StopClear ==
    /\ pc = "stop_clear"
    /\ _clear_rendered(0)
    /\ pc' = "stop_symbol"
    /\ UNCHANGED <<_spinner, _text, _color, _stop_event, _thread,
                   is_tty, threads, call, starts, fails, cvars>>

\* Mutant: the final line without the label.
FinalLine_m(symbol) == symbol \o <<NL>>

\* f"{symbol}{suffix}\n"
FinalLine(symbol) ==
    symbol \o (IF _text # <<>> THEN <<SPACE>> \o _text ELSE <<>>) \o <<NL>>

StopSymbol ==
    /\ pc = "stop_symbol"
    /\ stream' = IF call.symbol # <<>>
                 THEN Append(stream, [by |-> 0, s |-> FinalLine(call.symbol)])
                 ELSE stream
    /\ pc' = "stop_show"
    /\ UNCHANGED <<_spinner, _text, _color, _stop_event, _thread,
                   _last_rendered_lines, is_tty, threads, call, starts, fails, cvars>>

\* Mutant: stop() returns without restoring the cursor.
StopShow_m ==
    /\ pc = "stop_show"
    /\ pc' = "idle"
    /\ Return
    /\ UNCHANGED <<_spinner, _text, _color, _stop_event, _thread,
                   _last_rendered_lines, is_tty, stream, threads, starts, fails, cvars>>

StopShow ==
    /\ pc = "stop_show"
    /\ stream' = Append(stream, [by |-> 0, s |-> SHOW_CURSOR])
    /\ pc' = "idle"
    /\ Return
    /\ UNCHANGED <<_spinner, _text, _color, _stop_event, _thread,
                   _last_rendered_lines, is_tty, threads, starts, fails, cvars>>

StopStep == StopJoin \/ StopClear \/ StopSymbol \/ StopShow

\* ------------------------------------------------- stream.write() raising
\* A write that raises leaves nothing on the stream; _clear_rendered may have
\* made k of its writes before, and does not reach its counter reset.
LoopHideFails(t) ==
    /\ fails < MaxFails
    /\ fails' = fails + 1
    /\ threads[t].pc = "hide"
    /\ Goto(t, "raised")
    /\ UNCHANGED <<_spinner, _text, _color, _stop_event, _thread,
                   _last_rendered_lines, is_tty, stream, pc, call, starts, cvars>>

LoopClearFails(t) ==
    /\ fails < MaxFails
    /\ fails' = fails + 1
    /\ threads[t].pc = "clear"
    /\ \E k \in 0..(Len(EraseWrites(_last_rendered_lines)) - 1) :
          stream' = stream \o Written(t, SubSeq(EraseWrites(_last_rendered_lines), 1, k))
    /\ Goto(t, "raised")
    /\ UNCHANGED <<_spinner, _text, _color, _stop_event, _thread,
                   _last_rendered_lines, is_tty, pc, call, starts, cvars>>

LoopWriteFails(t) ==
    /\ fails < MaxFails
    /\ fails' = fails + 1
    /\ threads[t].pc = "write"
    /\ Goto(t, "raised")
    /\ UNCHANGED <<_spinner, _text, _color, _stop_event, _thread,
                   _last_rendered_lines, is_tty, stream, pc, call, starts, cvars>>

StartWriteFails ==
    /\ fails < MaxFails
    /\ fails' = fails + 1
    /\ pc = "idle"
    /\ starts < MaxStarts
    /\ ~is_tty
    /\ _text # <<>>
    /\ starts' = starts + 1
    /\ call' = [Begin("start", <<>>, FALSE) EXCEPT !.status = "raised"]
    /\ UNCHANGED <<_spinner, _text, _color, _stop_event, _thread,
                   _last_rendered_lines, is_tty, stream, threads, pc, cvars>>

StopClearFails ==
    /\ fails < MaxFails
    /\ fails' = fails + 1
    /\ pc = "stop_clear"
    /\ \E k \in 0..(Len(EraseWrites(_last_rendered_lines)) - 1) :
          stream' = stream \o Written(0, SubSeq(EraseWrites(_last_rendered_lines), 1, k))
    /\ pc' = "idle"
    /\ Raise
    /\ UNCHANGED <<_spinner, _text, _color, _stop_event, _thread,
                   _last_rendered_lines, is_tty, threads, starts, cvars>>

StopSymbolFails ==
    /\ fails < MaxFails
    /\ fails' = fails + 1
    /\ pc = "stop_symbol"
    /\ call.symbol # <<>>
    /\ pc' = "idle"
    /\ Raise
    /\ UNCHANGED <<_spinner, _text, _color, _stop_event, _thread,
                   _last_rendered_lines, is_tty, stream, threads, starts, cvars>>

StopShowFails ==
    /\ fails < MaxFails
    /\ fails' = fails + 1
    /\ pc = "stop_show"
    /\ pc' = "idle"
    /\ Raise
    /\ UNCHANGED <<_spinner, _text, _color, _stop_event, _thread,
                   _last_rendered_lines, is_tty, stream, threads, starts, cvars>>

WriteFails ==
    \/ \E t \in Tids : LoopHideFails(t) \/ LoopClearFails(t) \/ LoopWriteFails(t)
    \/ StartWriteFails
    \/ StopClearFails
    \/ StopSymbolFails
    \/ StopShowFails

\* ---------------------------------------------------------- specifications
Init == SpinnerInit /\ CodecOff

Next ==
    \/ StartCall
    \/ StartAlive
    \/ StartClear
    \/ StartReset
    \/ StartSpawn
    \/ \E symbol \in Symbols : StopCall(symbol)
    \/ StopStep
    \/ \E t \in Tids : LoopStep(t) \/ WaitTimeout(t)

\* A stream whose writes all succeed.
Spec == Init /\ [][Next]_vars

\* A stream whose writes may raise.
NextIO == Next \/ WriteFails
SpecIO == Init /\ [][NextIO]_vars

\* The scheduler runs a started thread, and the caller inside stop() goes on;
\* no interval is required to elapse. The runs are those on a terminal, with
\* no label and no colour (neither is read by the loop's control flow).
InitLive == Init /\ is_tty /\ _text = <<>> /\ _color = ""

SpecLive ==
    /\ InitLive
    /\ [][Next]_vars
    /\ WF_vars(\E t \in Tids : LoopStep(t))
    /\ WF_vars(StopStep)

\* The runs on a terminal without a colour: what stop() and the loop write to
\* erase and to finish, for every definition and label.
InitErase == Init /\ is_tty /\ _color = ""

SpecErase == InitErase /\ [][Next]_vars

\* A renderer on a terminal whose definition is shorter than the number of
\* frames a thread writes: one frame, or the two single-line frames.
WrapDefs ==
    { [frames |-> << <<BRAILLE_BASE + 1>> >>, interval |-> 80] }
    \cup {d \in SpinnerDefs : Len(d.frames) = 2}

InitWrap ==
    /\ _spinner \in WrapDefs
    /\ _text \in Labels
    /\ _color \in ColorNames
    /\ is_tty = TRUE
    /\ _stop_event = FALSE
    /\ _thread = 0
    /\ _last_rendered_lines = 0
    /\ stream = <<>>
    /\ threads = [t \in Tids |-> [pc |-> "unborn", idx |-> 0, rendered |-> <<>>]]
    /\ pc = "idle"
    /\ call = NoCall
    /\ starts = 0
    /\ fails = 0
    /\ CodecOff

SpecWrap == InitWrap /\ [][Next]_vars

\* ------------------------------------------------------------- codec runs
\* The renderer of a codec run is idle: a non-terminal stream, nothing written.
SpinnerIdle ==
    /\ SpinnerInit
    /\ _spinner = CHOOSE d \in SpinnerDefs : Len(d.frames) = 2
    /\ _text = <<>>
    /\ _color = ""
    /\ ~is_tty

CodecInit ==
    /\ SpinnerIdle
    /\ rgrid = <<>>
    /\ rtext = <<>>
    /\ cdef = NoDef
    /\ cfactor = 0
    /\ rdef = NoDef
    /\ \/ /\ cpc = "grid"
          /\ \/ \E rows \in 0..MaxRows, cols \in 0..MaxCols, on \in BOOLEAN :
                   \E dots \in DotSets((1..rows) \X (1..cols), MaxDots) :
                      cgrid = GridOf(rows, cols, dots, on)
             \/ cgrid \in CellGrids
          /\ ctext = <<>>
       \/ cpc = "text" /\ ctext \in InputTexts /\ cgrid = <<>>

\* text = grid_to_braille(g)
EncodeGrid ==
    /\ cpc = "grid"
    /\ ctext' = grid_to_braille(cgrid)
    /\ cpc' = "grid_encoded"
    /\ UNCHANGED <<cgrid, rgrid, rtext, scalevars, svars>>

\* recovered = braille_to_grid(text)
DecodeEncoded ==
    /\ cpc = "grid_encoded"
    /\ rgrid' = braille_to_grid(ctext)
    /\ cpc' = "grid_done"
    /\ UNCHANGED <<cgrid, ctext, rtext, scalevars, svars>>

\* grid = braille_to_grid(frame)
DecodeText ==
    /\ cpc = "text"
    /\ cgrid' = braille_to_grid(ctext)
    /\ cpc' = "text_decoded"
    /\ UNCHANGED <<ctext, rgrid, rtext, scalevars, svars>>

\* grid_to_braille(grid)
EncodeDecoded ==
    /\ cpc = "text_decoded"
    /\ rtext' = grid_to_braille(cgrid)
    /\ cpc' = "text_done"
    /\ UNCHANGED <<cgrid, ctext, rgrid, scalevars, svars>>

CodecNext == EncodeGrid \/ DecodeEncoded \/ DecodeText \/ EncodeDecoded

SpecCodec == CodecInit /\ [][CodecNext]_vars

\* ------------------------------------------------------------ scaling runs
\* The definitions scaled: those the renderer renders, one of two frames of
\* different sizes, and every one-frame definition of a short text of two
\* braille cells (dot 1, dots 7+8) and newlines.
ScaleDefs ==
    SpinnerDefs
    \cup { [frames |-> << <<BRAILLE_BASE + 1>>,
                          <<BRAILLE_BASE + 192, BRAILLE_BASE + 255, NL, BRAILLE_BASE + 1>> >>,
            interval |-> 100] }
    \cup { [frames |-> <<t>>, interval |-> 100] :
             t \in SeqsUpTo({BRAILLE_BASE + 1, BRAILLE_BASE + 192, NL}, MaxFrameLen) }

Factors == (-1)..MaxFactor

ScaleInit ==
    /\ SpinnerIdle
    /\ cpc = "scale"
    /\ cgrid = <<>>
    /\ ctext = <<>>
    /\ rgrid = <<>>
    /\ rtext = <<>>
    /\ cdef \in ScaleDefs
    /\ cfactor \in Factors
    /\ rdef = NoDef

\* scaled = scale_spinner(sp, factor)
ScaleDef ==
    /\ cpc = "scale"
    /\ rdef' = scale_spinner(cdef, cfactor)
    /\ cpc' = "scaled"
    /\ UNCHANGED <<cgrid, ctext, rgrid, rtext, cdef, cfactor, svars>>

ScaleNext == ScaleDef

SpecScale == ScaleInit /\ [][ScaleNext]_vars

\* ---------------------------------------------------------- formatting runs
\* The frames formatted: every short text of one braille cell and newlines, the
\* empty frame and frames with an empty first line among them.
FormatFrames == SeqsUpTo({BRAILLE_BASE + 1, NL}, MaxFrameLen)

\* A renderer of any label, colour and stream, not started.
FormatInit ==
    /\ SpinnerInit
    /\ _spinner = CHOOSE d \in SpinnerDefs : Len(d.frames) = 2
    /\ cpc = "format"
    /\ ctext \in FormatFrames
    /\ cgrid = <<>>
    /\ rgrid = <<>>
    /\ rtext = <<>>
    /\ cdef = NoDef
    /\ cfactor = 0
    /\ rdef = NoDef

\* frame = sp._format_frame(text)
FormatFrame ==
    /\ cpc = "format"
    /\ rtext' = _format_frame(ctext)
    /\ cpc' = "formatted"
    /\ UNCHANGED <<cgrid, ctext, rgrid, scalevars, svars>>

FormatNext == FormatFrame

SpecFormat == FormatInit /\ [][FormatNext]_vars

\* ==================================================================== claims
\* g followed by all-False rows up to the next multiple of 4 rows.
PadRows(g) ==
    [r \in 1..(4 * ((Len(g) + 3) \div 4)) |->
        IF r <= Len(g) THEN g[r] ELSE [c \in 1..Len(g[1]) |-> FALSE]]

\* An encode-then-decode run of a grid with an even, non-zero column count.
EvenGridRun ==
    /\ cpc = "grid_done"
    /\ Len(cgrid) >= 1
    /\ Len(cgrid[1]) > 0
    /\ Len(cgrid[1]) % 2 = 0

\* C1 as it was claimed: for every rectangular grid g with at least one row and
\* an even, non-zero column count, whatever its row count,
\* braille_to_grid(grid_to_braille(g)) = g.
C1_AnyRowCount == EvenGridRun => rgrid = cgrid

\* C1, amended: for such a grid, braille_to_grid(grid_to_braille(g)) is g
\* followed by all-False rows up to the next multiple of 4 rows, so it is g
\* itself when the row count is a multiple of 4.
C1_RoundTrip ==
    EvenGridRun =>
        /\ rgrid = PadRows(cgrid)
        /\ Len(cgrid) % 4 = 0 => rgrid = cgrid

C1_Witness ==
    /\ EvenGridRun
    /\ Len(cgrid) = 8
    /\ Len(cgrid[1]) = 4
    /\ cgrid[4][1]
    /\ ~cgrid[8][4]
    /\ cgrid[5][2]
    /\ rgrid = cgrid

\* The lines of a text, split at every newline (empty lines kept).
RECURSIVE LinesOf(_)
LinesOf(t) ==
    IF \A i \in 1..Len(t) : t[i] # NL THEN <<t>>
    ELSE LET i == CHOOSE j \in 1..Len(t) : t[j] = NL /\ \A k \in 1..(j - 1) : t[k] # NL
         IN <<SubSeq(t, 1, i - 1)>> \o LinesOf(SubSeq(t, i + 1, Len(t)))

\* One or more newline-separated lines, each of one or more braille cells.
IsFrameText(t) ==
    \A i \in 1..Len(LinesOf(t)) :
        /\ Len(LinesOf(t)[i]) >= 1
        /\ \A k \in 1..Len(LinesOf(t)[i]) :
              LinesOf(t)[i][k] \in BRAILLE_BASE..(BRAILLE_BASE + 255)

SameLength(lines) == \A i, j \in 1..Len(lines) : Len(lines[i]) = Len(lines[j])

\* C2 as it was claimed: for every text of one or more newline-separated lines
\* of braille cells, grid_to_braille(braille_to_grid(text)) = text.
C2_AnyFrameText == (cpc = "text_done" /\ IsFrameText(ctext)) => rtext = ctext

\* C2, amended: for every text of one or more newline-separated lines of braille
\* cells whose lines all have the same number of cells,
\* grid_to_braille(braille_to_grid(text)) = text.
C2_RoundTrip ==
    (cpc = "text_done" /\ IsFrameText(ctext) /\ SameLength(LinesOf(ctext))) =>
        rtext = ctext

C2_Witness ==
    /\ cpc = "text_done"
    /\ IsFrameText(ctext)
    /\ Len(LinesOf(ctext)) = 2
    /\ Len(LinesOf(ctext)[1]) = 2
    /\ Len(LinesOf(ctext)[2]) = 2
    /\ ctext[1] # ctext[5]
    /\ rtext = ctext

\* The thread t runs: it was started and has not ended.
Running(t) == threads[t].pc \in {"hide", "check", "clear", "write", "count", "wait"}

\* The caller's last call was a stop() and it has returned.
StopReturned == pc = "idle" /\ call.op = "stop" /\ call.status = "returned"

\* The write() calls made by render threads, and those of thread t.
LoopWrites == SelectSeq(stream, LAMBDA w : w.by # 0)
ThreadWrites(t) == SelectSeq(stream, LAMBDA w : w.by = t)

\* C3: once stop() has returned, the thread reference is cleared, no render
\* thread runs, and no render thread writes to the stream, in every
\* interleaving of the caller with the render thread.
C3_QuietAfterStop ==
    /\ [](StopReturned => (_thread = 0 /\ \A t \in Tids : ~Running(t)))
    /\ [][StopReturned => LoopWrites' = LoopWrites]_vars

C3_Witness ==
    /\ is_tty
    /\ StopReturned
    /\ call.active
    /\ \E k \in 1..Len(stream) : stream[k].by # 0 /\ stream[k].s # HIDE_CURSOR

\* C4: with the render thread and the caller scheduled fairly, and without any
\* interval having to elapse, a stop() that has set the event and waits in
\* join() returns, with the thread ended: the wait between frames ends on the
\* event and the loop leaves at its next check.
C4_StopReturns ==
    (pc = "stop_join") ~> (StopReturned /\ call.active /\ \A t \in Tids : ~Running(t))

\* A thread back at its check from a wait that cannot have timed out.
C4_Witness ==
    /\ pc = "stop_join"
    /\ _stop_event
    /\ \E t \in Tids : threads[t].pc = "check" /\ threads[t].idx = MaxTicks + 1

\* C5: start() on a renderer whose thread runs changes nothing; a running
\* render thread is always the one the renderer references, so at most one
\* runs; and when stop() returns every thread start() created has ended.
C5_OneThread ==
    /\ [](\A t \in Tids : Running(t) => _thread = t)
    /\ [](Cardinality({t \in Tids : Running(t)}) <= 1)
    /\ [](StopReturned => \A t \in Tids : threads[t].pc \in {"unborn", "done", "raised"})
    /\ [][(pc = "start_alive" /\ _thread # 0 /\ Running(_thread) /\ pc' # pc) =>
            (pc' = "idle" /\ UNCHANGED <<_thread, _stop_event, _last_rendered_lines,
                                         stream, threads>>)]_vars

\* start() returned without doing anything while the thread was running.
C5_Witness ==
    /\ pc = "idle"
    /\ call.op = "start"
    /\ call.status = "returned"
    /\ ~call.active
    /\ is_tty
    /\ _thread # 0
    /\ Running(_thread)
    /\ Len(stream) > 0

\* C6: on a stream that is not a terminal, no thread is ever created, the
\* renderer never leaves idle, and the stream holds exactly one
\* label-plus-newline per start() call made (nothing for an empty label),
\* whatever stop() calls were made.
C6_NonTtyFallback ==
    ~is_tty =>
        /\ _thread = 0
        /\ \A t \in Tids : threads[t].pc = "unborn"
        /\ pc = "idle"
        /\ stream = [k \in 1..(IF _text = <<>> THEN 0 ELSE starts) |->
                        [by |-> 0, s |-> _text \o <<NL>>]]

C6_Witness ==
    /\ ~is_tty
    /\ _text # <<>>
    /\ starts = 1
    /\ StopReturned
    /\ call.symbol # <<>>
    /\ Len(stream) = 1

\* C7: a stop() call on a renderer with no thread returns at once and leaves
\* the stream, the thread reference, the stop event and the rendered-line
\* counter as they were.
C7_StopNoOp ==
    [][(pc = "idle" /\ _thread = 0 /\ call'.op = "stop") =>
          (pc' = "idle" /\ call'.status = "returned"
           /\ UNCHANGED <<stream, _thread, _stop_event, _last_rendered_lines, threads>>)]_vars

\* A stop() that did nothing, after a start()/stop() cycle that rendered.
C7_Witness ==
    /\ StopReturned
    /\ ~call.active
    /\ is_tty
    /\ _stop_event
    /\ Len(stream) > 0
    /\ stream[Len(stream)].s = SHOW_CURSOR

\* C8: every start() that creates a thread, the first as well as one after a
\* stop(), leaves the stop event clear, the rendered-line counter 0 and the
\* thread reference on a new running thread at idx 0; and what a thread writes
\* begins with the cursor-hide sequence followed by the formatted first frame.
C8_Restart ==
    /\ [][(pc = "start_spawn" /\ pc' = "idle") =>
            (/\ ~_stop_event'
             /\ _last_rendered_lines' = 0
             /\ _thread' # 0
             /\ _thread' # _thread
             /\ threads[_thread'].pc = "unborn"
             /\ threads'[_thread'] = [pc |-> "hide", idx |-> 0, rendered |-> <<>>])]_vars
    /\ [](\A t \in Tids :
            /\ Len(ThreadWrites(t)) >= 1 => ThreadWrites(t)[1].s = HIDE_CURSOR
            /\ Len(ThreadWrites(t)) >= 2 =>
                  ThreadWrites(t)[2].s = _format_frame(_spinner.frames[1]))

\* The second thread has rendered its first frame after the first was stopped.
C8_Witness ==
    /\ threads[1].pc = "done"
    /\ Len(ThreadWrites(1)) >= 2
    /\ Len(ThreadWrites(2)) >= 2
    /\ Running(2)

\* The cursor-control writes on the stream, in order.
CursorWrites == SelectSeq(stream, LAMBDA w : w.s \in {HIDE_CURSOR, SHOW_CURSOR})

\* The writes of the stop() call in progress or last made.
StopWrites == SubSeq(stream, call.mark + 1, Len(stream))

\* C9: each render thread writes the cursor-hide sequence once, as its first
\* write; a stop() that stopped a thread and returned has written the
\* cursor-show sequence once, as its last write; so the hide and show
\* sequences on the stream alternate, hide first, and the last one is show
\* whenever the renderer is idle with no thread.
C9_HideShow ==
    /\ \A t \in Tids : \A k \in 1..Len(ThreadWrites(t)) :
          (ThreadWrites(t)[k].s = HIDE_CURSOR) <=> (k = 1)
    /\ \A k \in 1..Len(CursorWrites) :
          CursorWrites[k] \in
             (IF k % 2 = 1 THEN {[by |-> t, s |-> HIDE_CURSOR] : t \in Tids}
                           ELSE {[by |-> 0, s |-> SHOW_CURSOR]})
    /\ (StopReturned /\ call.active) =>
          /\ stream[Len(stream)] = [by |-> 0, s |-> SHOW_CURSOR]
          /\ Len(SelectSeq(StopWrites, LAMBDA w : w = [by |-> 0, s |-> SHOW_CURSOR])) = 1
    /\ (pc = "idle" /\ _thread = 0) => Len(CursorWrites) % 2 = 0

C9_Witness ==
    /\ StopReturned
    /\ call.active
    /\ Len(CursorWrites) = 4
    /\ Len(stream) > 8

\* The thread the last stop() joined: the last one created.
LastThread == CHOOSE t \in Tids : threads[t].pc # "unborn" /\ \A u \in Tids : u > t => threads[u].pc = "unborn"

\* C10: a stop() call on a renderer whose render thread has hidden the cursor
\* has written the cursor-show sequence when it ends, by returning or by
\* raising, also when one of its own writes raised.
C10_AlwaysRestores ==
    (/\ pc = "idle"
     /\ call.op = "stop"
     /\ call.active
     /\ call.status \in {"returned", "raised"}
     /\ \E k \in 1..Len(stream) : stream[k] = [by |-> LastThread, s |-> HIDE_CURSOR])
    => \E k \in 1..Len(StopWrites) : StopWrites[k] = [by |-> 0, s |-> SHOW_CURSOR]

\* The write() calls the caller made in the stop() call in progress or last made.
CallerStopWrites == SelectSeq(StopWrites, LAMBDA w : w.by = 0)

\* The number of lines of the frame the loop wrote last, 0 when it wrote none.
LastFrameLines ==
    IF LoopWrites[Len(LoopWrites)].s = HIDE_CURSOR THEN 0
    ELSE Len(LinesOf(LoopWrites[Len(LoopWrites)].s))

\* n carriage-return + clear-line writes with a cursor-up between them.
EraseOf(n) ==
    [k \in 1..(IF n = 0 THEN 0 ELSE 2 * n - 1) |->
        IF k % 2 = 1 THEN <<CR, ESC, 91, 50, 75>> ELSE <<ESC, 91, 49, 65>>]

\* C11: a stop(symbol) that stopped a thread and returned has written, after
\* every write of the loop and in this order: the erase sequence for the frame
\* the loop wrote last, then, for a non-empty symbol, one line of the symbol,
\* a space and the label (no space and no label for an empty label) and a
\* newline, then cursor-show; and nothing else.
C11_StopOutput ==
    (StopReturned /\ call.active) =>
        LET line == IF call.symbol = <<>> THEN <<>>
                    ELSE << call.symbol
                            \o (IF _text = <<>> THEN <<>> ELSE <<SPACE>> \o _text)
                            \o <<NL>> >>
            expected == Written(0, EraseOf(LastFrameLines) \o line \o <<SHOW_CURSOR>>)
        IN /\ CallerStopWrites = expected
           /\ SubSeq(stream, Len(stream) - Len(expected) + 1, Len(stream)) = expected

\* A stop with a symbol and a label, after a two-line frame.
C11_Witness ==
    /\ StopReturned
    /\ call.active
    /\ call.symbol # <<>>
    /\ _text # <<>>
    /\ LastFrameLines = 2
    /\ Len(CallerStopWrites) = 5
    /\ CallerStopWrites[4].s = call.symbol \o <<SPACE>> \o _text \o <<NL>>

\* The bit of the dot at row r, column c (0-based) of a braille cell.
DotValue ==
    [p \in (0..3) \X (0..1) |->
        CASE p = <<0, 0>> -> 1  [] p = <<1, 0>> -> 2  [] p = <<2, 0>> -> 4
          [] p = <<0, 1>> -> 8  [] p = <<1, 1>> -> 16 [] p = <<2, 1>> -> 32
          [] p = <<3, 0>> -> 64 [] p = <<3, 1>> -> 128]

\* The bitwise OR of the bits of the dots in S.
RECURSIVE OrOver(_)
OrOver(S) ==
    IF S = {} THEN 0
    ELSE LET p == CHOOSE q \in S : TRUE IN BitOr(DotValue[p], OrOver(S \ {p}))

\* The grid of an encode run is 4 rows of 2 columns.
IsCellGrid(g) == Len(g) = 4 /\ \A r \in 1..4 : Len(g[r]) = 2

\* C12: for every 4-row x 2-column grid, grid_to_braille returns the single
\* character 0x2800 + the bitwise OR of the fixed bits of the set dots (so a
\* single dot gives its single bit, the blank grid U+2800 and the full grid
\* U+28FF); and every character grid_to_braille emits, for any grid, lies in
\* U+2800..U+28FF.
C12_DotMap ==
    cpc = "grid_encoded" =>
        /\ IsCellGrid(cgrid) =>
              ctext = <<BRAILLE_BASE
                        + OrOver({p \in (0..3) \X (0..1) : cgrid[p[1] + 1][p[2] + 1]})>>
        /\ \A r \in 0..3, c \in 0..1 :
              cgrid = GridOf(4, 2, {<<r + 1, c + 1>>}, TRUE) =>
                 ctext = <<BRAILLE_BASE + DotValue[<<r, c>>]>>
        /\ cgrid = GridOf(4, 2, {}, TRUE) => ctext = <<10240>>
        /\ cgrid = GridOf(4, 2, {}, FALSE) => ctext = <<10495>>
        /\ \A k \in 1..Len(ctext) :
              ctext[k] = NL \/ ctext[k] \in BRAILLE_BASE..(BRAILLE_BASE + 255)

\* The cell with dots (0,0), (1,1) and (3,1), and none of the others, encoded.
C12_Witness ==
    /\ cpc = "grid_encoded"
    /\ IsCellGrid(cgrid)
    /\ cgrid = GridOf(4, 2, {<<1, 1>>, <<2, 2>>, <<4, 2>>}, TRUE)
    /\ ctext = <<BRAILLE_BASE + 1 + 16 + 128>>

\* C13: for every rectangular grid of R >= 1 rows and C >= 1 columns,
\* grid_to_braille returns ceil(R/4) newline-separated lines of ceil(C/2)
\* characters each, and the character k of line b has the bit of dot (r, d)
\* exactly when the cell (4b + r, 2k + d) is inside the grid and set: a column
\* missing for odd C and the rows missing in the last band give no bit. A grid
\* with no rows or no columns encodes to the empty string.
C13_Shape ==
    cpc = "grid_encoded" =>
        IF Len(cgrid) = 0 \/ Len(cgrid[1]) = 0 THEN ctext = <<>>
        ELSE LET R == Len(cgrid)
                 C == Len(cgrid[1])
                 lines == LinesOf(ctext)
             IN /\ Len(lines) = (R + 3) \div 4
                /\ \A b \in 1..Len(lines) :
                      /\ Len(lines[b]) = (C + 1) \div 2
                      /\ \A k \in 1..Len(lines[b]), r \in 0..3, d \in 0..1 :
                            (BitAnd(lines[b][k] - BRAILLE_BASE, DotValue[<<r, d>>]) # 0)
                            <=> (/\ 4 * (b - 1) + r + 1 <= R
                                 /\ 2 * (k - 1) + d + 1 <= C
                                 /\ cgrid[4 * (b - 1) + r + 1][2 * (k - 1) + d + 1])

\* A 5 x 3 grid: a last band of one row and a last character of one column.
C13_Witness ==
    /\ cpc = "grid_encoded"
    /\ cgrid = GridOf(5, 3, {<<5, 3>>}, TRUE)
    /\ ctext = <<BRAILLE_BASE, BRAILLE_BASE, NL, BRAILLE_BASE, BRAILLE_BASE + 1>>

\* A grid of no columns, encoded.
C13_WitnessEmpty ==
    /\ cpc = "grid_encoded"
    /\ Len(cgrid) = 3
    /\ cgrid[1] = <<>>
    /\ ctext = <<>>

\* The lines of a text, each ended by a newline or by the end of the text.
TextLines(t) ==
    LET p == LinesOf(t)
    IN IF p[Len(p)] = <<>> THEN SubSeq(p, 1, Len(p) - 1) ELSE p

\* C20: braille_to_grid of a text of L >= 1 lines, the longest of M
\* characters, is a grid of 4L rows of 2M columns each, in which the cell at
\* row 4i + r, column 2k + d is set exactly when line i has a character k and
\* that character has the bit of dot (r, d): the columns past a shorter line
\* are False, whatever the lengths of the lines. The empty string decodes to
\* the empty grid.
C20_DecodeShape ==
    cpc = "text_decoded" =>
        IF ctext = <<>> THEN cgrid = <<>>
        ELSE LET lines == TextLines(ctext)
                 L == Len(lines)
                 M == SeqMax([i \in 1..L |-> Len(lines[i])])
             IN /\ L >= 1
                /\ Len(cgrid) = 4 * L
                /\ \A R \in 1..(4 * L) :
                      /\ Len(cgrid[R]) = 2 * M
                      /\ \A c \in 1..(2 * M) :
                            LET line == lines[(R - 1) \div 4 + 1]
                                k == (c - 1) \div 2 + 1
                            IN cgrid[R][c] <=>
                                 /\ k <= Len(line)
                                 /\ BitAnd(line[k] - BRAILLE_BASE,
                                           DotValue[<<(R - 1) % 4, (c - 1) % 2>>]) # 0

\* A first line of one character above a second line of two.
C20_Witness ==
    /\ cpc = "text_decoded"
    /\ ctext = <<BRAILLE_BASE + 255, NL, BRAILLE_BASE + 1, BRAILLE_BASE + 192>>
    /\ Len(cgrid) = 8
    /\ Len(cgrid[1]) = 4
    /\ cgrid[4][2]
    /\ ~cgrid[4][3]
    /\ cgrid[5][1]
    /\ cgrid[8][4]

\* A scaling run with a factor of 2 or more has ended.
Scaled == cpc = "scaled" /\ cfactor >= 2

\* The length of the longest line of a text.
MaxLineLen(t) == SeqMax([i \in 1..Len(TextLines(t)) |-> Len(TextLines(t)[i])])

\* All frames have the same line count and the same longest line.
Uniform(frames) ==
    \A i, j \in 1..Len(frames) :
        /\ Len(TextLines(frames[i])) = Len(TextLines(frames[j]))
        /\ MaxLineLen(frames[i]) = MaxLineLen(frames[j])

\* C14: scale_spinner(d, f) with f <= 1, 0 and negative factors included,
\* returns d: the same frames in the same order and the same interval.
C14_ScaleIdentity == (cpc = "scaled" /\ cfactor <= 1) => rdef = cdef

\* Factor 0 on a frame that scaling would not have left as it is.
C14_Witness ==
    /\ cpc = "scaled"
    /\ cfactor = 0
    /\ cdef.frames = << <<BRAILLE_BASE + 1, BRAILLE_BASE + 1, NL, BRAILLE_BASE + 1>> >>
    /\ rdef = cdef

\* C15: for every definition d whose frames are lines of braille cells and
\* every factor f >= 2, scale_spinner(d, f) has as many frames as d and d's
\* interval, its i-th frame has f times the lines and f times the longest line
\* of d's i-th frame, and if d's frames all have one size so have its own.
C15_ScaleShape ==
    (Scaled /\ \A i \in 1..Len(cdef.frames) : IsFrameText(cdef.frames[i])) =>
        /\ Len(rdef.frames) = Len(cdef.frames)
        /\ rdef.interval = cdef.interval
        /\ \A i \in 1..Len(cdef.frames) :
              /\ Len(TextLines(rdef.frames[i])) = cfactor * Len(TextLines(cdef.frames[i]))
              /\ MaxLineLen(rdef.frames[i]) = cfactor * MaxLineLen(cdef.frames[i])
        /\ Uniform(cdef.frames) => Uniform(rdef.frames)

\* The three two-line frames of one character a line, scaled by 3.
C15_Witness ==
    /\ Scaled
    /\ cfactor = 3
    /\ Len(cdef.frames) = 3
    /\ Len(rdef.frames) = 3
    /\ Len(TextLines(rdef.frames[3])) = 6
    /\ MaxLineLen(rdef.frames[3]) = 3
    /\ rdef.interval = 40

\* C16: for every frame t of lines of braille cells and every factor f >= 2,
\* with g = braille_to_grid(t) and G = braille_to_grid of the scaled frame, G
\* has len(g) * f rows of len(g[0]) * f columns and G[R][C] = g[R div f][C div f]
\* for every cell: each raised dot gives a full f x f block, and nothing else
\* is raised.
C16_Blocks ==
    Scaled =>
        \A i \in 1..Len(cdef.frames) :
            IsFrameText(cdef.frames[i]) =>
                LET g == braille_to_grid(cdef.frames[i])
                    G == braille_to_grid(rdef.frames[i])
                IN /\ Len(G) = Len(g) * cfactor
                   /\ \A R \in 1..Len(G) :
                         /\ Len(G[R]) = Len(g[1]) * cfactor
                         /\ \A C \in 1..Len(G[R]) :
                               G[R][C] = g[(R - 1) \div cfactor + 1][(C - 1) \div cfactor + 1]

\* The bottom row of one cell, scaled by 2: the two bottom rows of the 8 x 4
\* grid and nothing else.
C16_Witness ==
    /\ Scaled
    /\ cfactor = 2
    /\ cdef.frames = << <<BRAILLE_BASE + 192>> >>
    /\ rdef.frames = << <<BRAILLE_BASE, BRAILLE_BASE, NL,
                          BRAILLE_BASE + 228, BRAILLE_BASE + 228>> >>

\* The lines of a frame; the empty frame is one empty line.
FrameLines(frame) == IF frame = <<>> THEN << <<>> >> ELSE TextLines(frame)

\* A colour name is configured, is a key of the colour table, and the stream is
\* a terminal.
Coloured ==
    /\ _color # ""
    /\ _color \in {"red", "green", "yellow", "blue", "magenta", "cyan", "white"}
    /\ is_tty

\* The lines of the frame, each in the colour prefix and the reset suffix when
\* Coloured and as they are otherwise.
WrappedLines(frame) ==
    IF Coloured
    THEN [k \in 1..Len(FrameLines(frame)) |-> _COLORS[_color] \o FrameLines(frame)[k] \o _RESET]
    ELSE FrameLines(frame)

\* The lines joined by newlines, the label appended to the first after a
\* space; with `bare`, an empty first line becomes the label alone.
Formatted(frame, bare) ==
    LET lines == WrappedLines(frame)
        first == IF _text = <<>> THEN lines[1]
                 ELSE IF bare /\ lines[1] = <<>> THEN _text
                 ELSE lines[1] \o <<SPACE>> \o _text
    IN Join([lines EXCEPT ![1] = first], NL)

\* C17 as it was claimed: _format_frame(frame) wraps every line in the colour
\* prefix and the reset suffix exactly when a colour is configured, is in the
\* table and the stream is a terminal, and a configured label is appended,
\* after a space, to the first line only, whatever the frame.
C17_AnyFrame == cpc = "formatted" => rtext = Formatted(ctext, FALSE)

\* C17, amended: as claimed, except that a first line that is empty (after
\* wrapping) is replaced by the label alone, with no space before it.
C17_Format == cpc = "formatted" => rtext = Formatted(ctext, TRUE)

\* A two-line frame with a label and a colour, on a terminal.
C17_Witness ==
    /\ cpc = "formatted"
    /\ is_tty
    /\ _color = "cyan"
    /\ _text = <<76>>
    /\ ctext = <<BRAILLE_BASE + 1, NL, BRAILLE_BASE + 1>>
    /\ rtext = <<ESC, 91, 51, 54, 109, BRAILLE_BASE + 1, ESC, 91, 48, 109, SPACE, 76, NL,
                 ESC, 91, 51, 54, 109, BRAILLE_BASE + 1, ESC, 91, 48, 109>>

\* The frames thread t wrote: its writes other than the cursor and erase
\* sequences.
FrameWrites(t) ==
    SelectSeq(ThreadWrites(t), LAMBDA w : w.s \notin {HIDE_CURSOR, CLEAR_LINE, CURSOR_UP})

\* C18: the k-th frame (k = 0, 1, 2, ...) a render thread has written, that is
\* since the start() that created it, is the formatted frames[k mod n] of the
\* definition's n frames: in definition order, none skipped or repeated out of
\* turn, the first again after the last.
C18_FrameOrder ==
    \A t \in Tids : \A k \in 1..Len(FrameWrites(t)) :
        FrameWrites(t)[k].s
            = _format_frame(_spinner.frames[((k - 1) % Len(_spinner.frames)) + 1])

\* The second thread of a one-frame definition has written the frame twice
\* (k = 1 wraps to frame 0), as the first thread had.
C18_Witness ==
    /\ Len(_spinner.frames) = 1
    /\ Len(FrameWrites(1)) = 2
    /\ Len(FrameWrites(2)) = 2
    /\ FrameWrites(2)[2].s = _format_frame(_spinner.frames[1])

\* Both frames of a two-frame definition written, in order.
C18_WitnessOrder ==
    /\ Len(_spinner.frames) = 2
    /\ Len(FrameWrites(1)) = 2
    /\ FrameWrites(1)[1].s # FrameWrites(1)[2].s

\* A frame written by a render thread, and the lines a loop write left on the
\* terminal (none for the cursor-hide sequence).
IsFrameWrite(w) == w.by # 0 /\ w.s \notin {HIDE_CURSOR, CLEAR_LINE, CURSOR_UP}
LinesLeft(w) == IF w.s = HIDE_CURSOR THEN 0 ELSE Len(LinesOf(w.s))

\* The write before stream[k] by the same thread that is not part of an erase:
\* its previous frame, or its cursor-hide. Found by going back from p.
RECURSIVE ScanBack(_, _)
ScanBack(k, p) ==
    IF p <= 1 THEN 1
    ELSE IF stream[p].by = stream[k].by /\ stream[p].s \notin {CLEAR_LINE, CURSOR_UP}
         THEN p
         ELSE ScanBack(k, p - 1)

PrevWrite(k) == ScanBack(k, k - 1)

\* The lines of the frame written last and not erased since.
Unerased ==
    IF stream # <<>> /\ IsFrameWrite(stream[Len(stream)])
    THEN LinesLeft(stream[Len(stream)]) ELSE 0

CallerOwns ==
    pc \in {"start_clear", "start_reset", "start_spawn",
            "stop_clear", "stop_symbol", "stop_show"}

\* C21: with start() and stop() called from one thread, every write() the
\* caller makes and every assignment it makes to the rendered-line counter is
\* made while no render thread runs, in every interleaving: the caller is at
\* those statements only before it starts the thread or after it has joined it.
C21_NoConcurrentAccess ==
    /\ [](CallerOwns => \A t \in Tids : ~Running(t))
    /\ [][(\/ /\ Len(stream') > Len(stream)
               /\ stream'[Len(stream')].by = 0
            \/ /\ pc \in {"start_reset", "stop_clear"}
               /\ pc' # pc)
           => (\A t \in Tids : ~Running(t)) /\ threads' = threads]_vars

\* The caller erases the frame of the second thread it started and joined,
\* having reset the counter for it after the first had ended.
C21_Witness ==
    /\ pc = "stop_symbol"
    /\ starts = 2
    /\ threads[1].pc = "done"
    /\ threads[2].pc = "done"
    /\ Len(FrameWrites(1)) >= 1
    /\ Len(FrameWrites(2)) >= 1
    /\ Len(CallerStopWrites) >= 1
    /\ _last_rendered_lines = 0

\* A stop() call has set the event and no start() has been called since.
Signalled == call.op = "stop" /\ call.active

\* The frames thread t wrote after the stop() call in progress or last made
\* set the event.
FramesSinceSignal(t) ==
    SelectSeq(StopWrites, LAMBDA w : w.by = t /\ IsFrameWrite(w))

\* C22: once stop() has set the event, the loop writes at most one more frame
\* and then ends: no thread goes from its check of the event into an iteration
\* while the event is set, a thread at its check with the event set ends, so a
\* frame written after the event was set comes from the iteration the thread
\* was in (past its check) when it was set; and a thread whose event is set
\* before its first check writes the cursor-hide sequence and no frame.
C22_AtMostOneMoreFrame ==
    /\ [](Signalled => \A t \in Tids : Len(FramesSinceSignal(t)) <= 1)
    /\ [](Signalled =>
            \A t \in Tids :
               threads[t].pc \in {"hide", "clear", "write"} =>
                  FramesSinceSignal(t) = <<>>)
    /\ [][\A t \in Tids :
            /\ (threads[t].pc = "check" /\ threads'[t].pc = "clear") => ~_stop_event
            /\ (threads[t].pc = "check" /\ _stop_event /\ threads'[t] # threads[t])
                  => threads'[t].pc = "done"
            /\ (_stop_event /\ threads[t].pc \in {"hide", "count", "wait"})
                  => threads'[t].pc \in {"hide", "check", "count", "wait", "raised"}]_vars
    /\ [](\A t \in Tids :
            (threads[t].pc = "done" /\ threads[t].idx = 0) =>
                ThreadWrites(t) = <<[by |-> t, s |-> HIDE_CURSOR]>>)

\* The event was set while the thread was inside its second iteration: it
\* wrote that one frame after the event, and ended at its next check.
C22_Witness ==
    /\ Signalled
    /\ pc = "stop_join"
    /\ threads[1].pc = "done"
    /\ Len(FrameWrites(1)) = 2
    /\ Len(FramesSinceSignal(1)) = 1

\* The event was set before the thread's first check: cursor-hide, no frame.
C22_WitnessEarly ==
    /\ Signalled
    /\ pc = "stop_join"
    /\ threads[1].pc = "done"
    /\ threads[1].idx = 0
    /\ ThreadWrites(1) = <<[by |-> 1, s |-> HIDE_CURSOR]>>

====
